---- MODULE Spec2Model ----
(***************************************************************************)
(* rcpp_extract_patterns (src/src/rcpp_extract_patterns.cpp): the two-pass *)
(* scan that extracts methylation patterns from the reads overlapping a    *)
(* target window.  One behaviour is one invocation: the arguments are      *)
(* fixed by Init, every loop iteration is one step.                        *)
(*                                                                         *)
(* Characters are their ASCII codes.  C strings are indexed from 0, TLA+   *)
(* sequences from 1: character i of a string s is s[i+1].  32-bit unsigned *)
(* values are kept as their two's complement bit patterns (a wrapped       *)
(* difference is a negative integer) and compared with ULt/UGe.            *)
(***************************************************************************)
EXTENDS Integers, Sequences, FiniteSets, TLC

(* ------------------------------ bounds -------------------------------- *)

\* longest explicit read array of an invocation
MaxReads == 2
\* off-target reads that may precede the explicit reads in the read array
MaxPad == 65537

(* ------------------------- program constants -------------------------- *)

\* R's NA_INTEGER (INT_MIN), the "missing" sentinel of the value vectors
NA_INTEGER == (0 - 2147483647) - 1

\* the interrupt check mask 0xFFFF
CheckMask == 65535

\* FNV-1a offset basis 14695981039346656037 = 0xCBF29CE484222325, as its
\* eight bytes, least significant first
offset_basis == <<37, 35, 34, 132, 228, 156, 242, 203>>

\* FNV prime 1099511628211 = 0x00000100000001B3, least significant byte first
fnv_prime == <<179, 1, 0, 0, 0, 1, 0, 0>>

\* base_map[] = {3, 4, 11, 12}, indexed from 0
base_map == <<3, 4, 11, 12>>

\* the factor levels attached to every position column; R factor codes are
\* 1-based indices into this vector
contexts ==
  <<"NA1", "H", "A", "C", "NA5", "X", "Z", "NA8",
    "NA9", "h", "T", "G", "NA13", "x", "z", "NA16">>

\* ASCII codes of the characters that occur in call and sequence strings
Ascii ==
  [H |-> 72, X |-> 88, Z |-> 90, h |-> 104, x |-> 120, z |-> 122,
   A |-> 65, C |-> 67, G |-> 71, T |-> 84, N |-> 78]

(* ------------------------------ arithmetic ---------------------------- *)

RECURSIVE BitAnd(_, _)
BitAnd(a, b) ==
  IF a = 0 \/ b = 0 THEN 0
  ELSE (a % 2) * (b % 2) + 2 * BitAnd(a \div 2, b \div 2)

\* bit j of a byte, and the exclusive or of two bytes
Bit(a, j) == (a \div (2 ^ j)) % 2
XorByte(a, b) ==
  LET d(j) == ((Bit(a, j) + Bit(b, j)) % 2) * (2 ^ j)
  IN  IF b = 0 THEN a
      ELSE d(0) + d(1) + d(2) + d(3) + d(4) + d(5) + d(6) + d(7)

\* unsigned < and >= on 32-bit patterns held as signed integers
ULt(a, b) == IF (a < 0) = (b < 0) THEN a < b ELSE b < 0
UGe(a, b) == ~ULt(a, b)

Max(a, b) == IF ULt(a, b) THEN b ELSE a
Min(a, b) == IF ULt(b, a) THEN b ELSE a

(* ------------------------------- inputs ------------------------------- *)

VARIABLES
  df,              \* the explicit part of the read array: records rname, strand, start, templid
  pad,             \* number of off-target reads that precede df in the read array
  target_rname, target_start, target_end,
  min_overlap,
  ctx,             \* the context string, a sequence of characters
  min_ctx_freq,    \* <<numerator, denominator>>, denominator a power of two
  clip,
  reverse_offset,
  hlght,           \* positions to highlight: sorted, unique
  charSigned       \* whether plain char is signed in this build

VARIABLES
  pc,              \* "pass1", "pass2": the loop that runs or was left; "done": returned
  outcome,         \* "running", "success", "aborted"
  x,               \* read index of the running loop
  npat,
  pos_map,         \* position -> count
  pat_map,         \* position -> vector of values
  hlght_map,       \* position -> vector of values
  pat_strand, pat_start, pat_end, pat_nbase,
  pat_beta,        \* <<meth, total>>: the quotient (double)meth/total
  pat_fnv,         \* 16-character strings
  res              \* the returned data frame

VARIABLES
  checks,          \* history: <<pass, x>> of every interrupt check made
  scan1, scan2,    \* history: per read of df, the positions start+i whose call was read
  pat_read         \* history: per emitted pattern, the index in df of its read

args == <<df, pad, target_rname, target_start, target_end, min_overlap, ctx,
          min_ctx_freq, clip, reverse_offset, hlght, charSigned>>
pats == <<pat_strand, pat_start, pat_end, pat_nbase, pat_beta, pat_fnv, pat_read>>
vars == <<args, pc, outcome, x, npat, pos_map, pat_map, hlght_map, pats, res,
          checks, scan1, scan2>>

\* the shared string tables behind xm_xptr and seq_xptr, indexed by templid
xm ==
  << <<Ascii.Z, Ascii.z, Ascii.H>>,
     <<Ascii.z, Ascii.Z, Ascii.H>>,
     <<Ascii.x, Ascii.Z, Ascii.h, Ascii.X>> >>

seq ==
  << <<Ascii.A, Ascii.C, Ascii.G>>,
     <<Ascii.T, Ascii.N, Ascii.A>>,
     <<Ascii.G, Ascii.T, Ascii.C, Ascii.A>> >>

\* the reads an invocation may be given (strand 1 forward, 2 reverse)
ReadPool ==
  { [rname |-> 1, strand |-> 1, start |-> 100, templid |-> 0],
    [rname |-> 1, strand |-> 1, start |-> 100, templid |-> 1],
    [rname |-> 1, strand |-> 2, start |-> 101, templid |-> 0],
    [rname |-> 1, strand |-> 1, start |-> 99,  templid |-> 2],
    [rname |-> 1, strand |-> 2, start |-> 127, templid |-> 1] }

\* an off-target read of the padding
PadRead == [rname |-> 2, strand |-> 1, start |-> 1, templid |-> 0]

Targets == { <<100, 102>>, <<126, 128>>, <<102, 100>> }
Contexts == { <<Ascii.z, Ascii.Z>>, <<Ascii.h, Ascii.H, Ascii.x, Ascii.X>> }
Freqs == { <<0, 1>>, <<1, 1>> }
Highlights == { << >>, <<99, 101>> }

ReadArrays == UNION { [1..n -> ReadPool] : n \in 0..MaxReads }

(* ------------------------------ the macros ---------------------------- *)

\* a variant of ctx_to_idx without the + 2
ctx_to_idx_unrounded(c) == BitAnd(c \div 4, 15)

\* ctx_to_idx(c): ((c+2)>>2) & 15
ctx_to_idx(c) == BitAnd((c + 2) \div 4, 15)

\* nt_to_idx(c): base_map[(c>>1) & 3]
nt_to_idx(c) == base_map[BitAnd(c \div 2, 3) + 1]

\* the value of *(pointer+idx) for a byte b, as the 8 bytes of the 64-bit
\* operand of ^=: a plain char is promoted, so a byte above 127 is sign
\* extended where char is signed
CharOperand(b) ==
  IF charSigned /\ b >= 128
    THEN <<b, 255, 255, 255, 255, 255, 255, 255>>
    ELSE <<b, 0, 0, 0, 0, 0, 0, 0>>

\* hash ^= *(pointer+idx)
FnvXor(h, b) ==
  LET o == CharOperand(b)
  IN  <<XorByte(h[1], o[1]), XorByte(h[2], o[2]), XorByte(h[3], o[3]), XorByte(h[4], o[4]),
        XorByte(h[5], o[5]), XorByte(h[6], o[6]), XorByte(h[7], o[7]), XorByte(h[8], o[8])>>

\* hash *= 1099511628211u, modulo 2^64: the schoolbook product by bytes;
\* column k of the product is c(k), t(k) the column with the carry added
FnvMul(h) ==
  LET c(k) == h[k] * fnv_prime[1]
              + (IF k > 1 THEN h[k - 1] * fnv_prime[2] ELSE 0)
              + (IF k > 5 THEN h[k - 5] * fnv_prime[6] ELSE 0)
      t1 == c(1)
      t2 == c(2) + t1 \div 256
      t3 == c(3) + t2 \div 256
      t4 == c(4) + t3 \div 256
      t5 == c(5) + t4 \div 256
      t6 == c(6) + t5 \div 256
      t7 == c(7) + t6 \div 256
      t8 == c(8) + t7 \div 256
  IN  <<t1 % 256, t2 % 256, t3 % 256, t4 % 256, t5 % 256, t6 % 256, t7 % 256, t8 % 256>>

\* fnv_add(hash, pointer, size): the loop over idx, st its hash and idx
RECURSIVE FnvLoop(_, _, _)
FnvLoop(st, pointer, size) ==
  IF st.idx < size
    THEN FnvLoop([hash |-> FnvMul(FnvXor(st.hash, pointer[st.idx + 1])),
                  idx |-> st.idx + 1],
                 pointer, size)
    ELSE st

fnv_add(hash, pointer, size) == FnvLoop([hash |-> hash, idx |-> 0], pointer, size).hash

\* the four bytes of an int or unsigned int in memory (little endian)
IntBytes(p) ==
  <<p % 256, (p \div 256) % 256, (p \div 65536) % 256, (p \div 16777216) % 256>>

\* snprintf(fnv_str, 17, "%.16" PRIX64, fnv): 16 upper case hex digits,
\* most significant first
HexDigit(d) == IF d < 10 THEN 48 + d ELSE 55 + d
HexByte(b) == <<HexDigit(b \div 16), HexDigit(b % 16)>>
FnvStr(h) ==
  HexByte(h[8]) \o HexByte(h[7]) \o HexByte(h[6]) \o HexByte(h[5])
    \o HexByte(h[4]) \o HexByte(h[3]) \o HexByte(h[2]) \o HexByte(h[1])

(* --------------------------- the overlap filter ----------------------- *)

\* the read array: rname, strand, start, templid at index i
nreads == pad + Len(df)
ReadAt(i) == IF i < pad THEN PadRead ELSE df[i - pad + 1]

xm_x(r) == xm[r.templid + 1]
seq_x(r) == seq[r.templid + 1]
size_x(r) == Len(xm_x(r))
start_x(r) == r.start
end_x(r) == start_x(r) + size_x(r) - 1
over_start_x(r) == Max(start_x(r), target_start)
over_end_x(r) == Min(end_x(r), target_end)
overlap(r) == over_end_x(r) - over_start_x(r) + 1
offset_x(r) == IF r.strand = 2 THEN reverse_offset ELSE 0
begin_i(r) == IF clip THEN over_start_x(r) - start_x(r) ELSE 0
end_i(r) == IF clip THEN overlap(r) ELSE size_x(r)

\* rname[x]==(int)target_rname and overlap>=min_overlap
OnTarget(r) == r.rname = target_rname
Overlaps(r) == overlap(r) >= min_overlap

\* ctx_map[c] != 0: the context string's characters, and A, C, G, T
ctx_map == {ctx[k] : k \in 1..Len(ctx)} \cup {Ascii.A, Ascii.C, Ascii.G, Ascii.T}

\* the indices the for loops over i visit
RECURSIVE ScanFrom(_, _)
ScanFrom(i, e) == IF ULt(i, e) THEN {i} \cup ScanFrom(i + 1, e) ELSE {}
ScanIdx(r) == ScanFrom(begin_i(r), end_i(r))

\* a variant of AtCheck with the mask 0x7FFF
AtCheckMask7FFF(i) == BitAnd(i, 32767) = 0

\* (x & 0xFFFF) == 0
AtCheck(i) == BitAnd(i, CheckMask) = 0

(* -------------------------------- pass 1 ------------------------------ *)

\* pos_hint = pos_map.try_emplace(pos_hint, pos, 0); pos_hint->second++
Count(m, p) == (p :> (IF p \in DOMAIN m THEN m[p] + 1 ELSE 1)) @@ m

\* the loop over i of the first pass; st holds i, pos_map and the positions
\* start+i whose call character the loop has read
RECURSIVE Pass1Scan(_, _)
Pass1Scan(st, r) ==
  IF ULt(st.i, end_i(r))
    THEN Pass1Scan([i |-> st.i + 1,
                    map |-> IF xm_x(r)[st.i + 1] \in ctx_map
                              THEN Count(st.map, start_x(r) + st.i - offset_x(r))
                              ELSE st.map,
                    seen |-> st.seen \cup {start_x(r) + st.i}],
                   r)
    ELSE st

Scan1(m, r) == Pass1Scan([i |-> begin_i(r), map |-> m, seen |-> {}], r)

\* a variant of Npat1 that counts only the reads with a context character
Npat1OnlyWithContext(n, r) ==
  IF \E i \in ScanIdx(r) : xm_x(r)[i + 1] \in ctx_map THEN n + 1 ELSE n

\* npat++ of the first pass
Npat1(n, r) == n + 1

\* (double)it->second/npat >= min_ctx_freq, both sides exact: the
\* denominator of min_ctx_freq is a power of two
FreqOk(count, n) == count * min_ctx_freq[2] >= min_ctx_freq[1] * n

\* std::find(hlght.begin(), hlght.end(), p) != hlght.end()
InHlght(p) == \E k \in 1..Len(hlght) : hlght[k] = p

\* T_val (npat, NA_INTEGER)
NAVector(n) == [k \in 1..n |-> NA_INTEGER]

\* the keys given to pat_map.emplace by the loop over pos_map
Selected(m, n) == {p \in DOMAIN m : FreqOk(m[p], n) /\ ~InHlght(p)}

(* -------------------------------- pass 2 ------------------------------ *)

\* the values to save at index npat, with the value v for position p added
Put(cells, p, v) == (p :> v) @@ cells

\* a variant of MethInc that counts the codes with bit 8 set
MethIncBitSet(base) == IF BitAnd(base, 8) = 0 THEN 0 ELSE 1

\* meth += !(base & 8)
MethInc(base) == IF BitAnd(base, 8) = 0 THEN 1 ELSE 0

\* the loop over i of the second pass; st holds i, meth, total, fnv, the
\* values saved into pat_map at index npat, and the positions start+i whose
\* call character the loop has read
RECURSIVE Pass2Scan(_, _)
Pass2Scan(st, r) ==
  IF ULt(st.i, end_i(r))
    THEN LET c == xm_x(r)[st.i + 1]
             pos == start_x(r) + st.i - offset_x(r)
             base == ctx_to_idx(c)
             seen == st.seen \cup {start_x(r) + st.i}
         IN  Pass2Scan(
               IF c \in ctx_map /\ pos \in DOMAIN pat_map
                 THEN [i |-> st.i + 1,
                       meth |-> st.meth + MethInc(base),
                       total |-> st.total + 1,
                       fnv |-> fnv_add(fnv_add(st.fnv, IntBytes(pos), 4), <<c>>, 1),
                       cells |-> Put(st.cells, pos, base),
                       seen |-> seen]
                 ELSE [st EXCEPT !.i = @ + 1, !.seen = seen],
               r)
    ELSE st

Scan2(r) ==
  Pass2Scan([i |-> begin_i(r), meth |-> 0, total |-> 0, fnv |-> offset_basis,
             cells |-> << >>, seen |-> {}],
            r)

\* a variant of HlghtHit without the test of ctx_map
HlghtHitAnyBase(r, hlght_pos) ==
  /\ UGe(hlght_pos, begin_i(r))
  /\ ULt(hlght_pos, end_i(r))

\* if position within pattern and is a valid (ACGT) base
HlghtHit(r, hlght_pos) ==
  /\ UGe(hlght_pos, begin_i(r))
  /\ ULt(hlght_pos, end_i(r))
  /\ seq_x(r)[hlght_pos + 1] \in ctx_map

\* the loop over the positions to highlight; st holds i, fnv and the values
\* saved into hlght_map at index npat
RECURSIVE HlghtScan(_, _)
HlghtScan(st, r) ==
  IF st.i < Len(hlght)
    THEN LET hlght_pos == hlght[st.i + 1] - start_x(r)
             c == seq_x(r)[hlght_pos + 1]
         IN  HlghtScan(
               IF HlghtHit(r, hlght_pos)
                 THEN [i |-> st.i + 1,
                       fnv |-> fnv_add(fnv_add(st.fnv, IntBytes(hlght[st.i + 1]), 4),
                                       <<c>>, 1),
                       cells |-> Put(st.cells, hlght[st.i + 1], nt_to_idx(c))]
                 ELSE [st EXCEPT !.i = @ + 1],
               r)
    ELSE st

Highlight(fnv, r) == HlghtScan([i |-> 0, fnv |-> fnv, cells |-> << >>], r)

\* a variant of NonEmpty that keeps every read
NonEmptyAlways(fnv) == TRUE

\* fnv != offset_basis: only if nonempty, valid pattern
NonEmpty(fnv) == fnv # offset_basis

\* hint->second[npat] = base, for the values in cells
Save(map, cells, n) ==
  [p \in DOMAIN map |->
     IF p \in DOMAIN cells THEN [map[p] EXCEPT ![n + 1] = cells[p]] ELSE map[p]]

\* pat_start and pat_end of a pattern
PatStart(r) == start_x(r) + begin_i(r)
\* a variant of PatEnd one position short
PatEndLastScanned(r) == start_x(r) + end_i(r) - 2

PatEnd(r) == start_x(r) + end_i(r) - 1

(* ------------------------------ the result ---------------------------- *)

\* no data frame has been returned
NotReturned == [returned |-> FALSE]

\* Rcpp::DataFrame::create()
EmptyTable ==
  [cols |-> << >>, seqnames |-> << >>, strand |-> << >>, start |-> << >>,
   end |-> << >>, nbase |-> << >>, beta |-> << >>, pattern |-> << >>]

\* it->second.resize(npat)
Resize(v, n) == [k \in 1..n |-> v[k]]

\* pat_map.merge(hlght_map): the keys of pat_map win
Merge(a, b) ==
  [p \in DOMAIN a \cup DOMAIN b |-> IF p \in DOMAIN a THEN a[p] ELSE b[p]]

Table ==
  LET merged == Merge(pat_map, hlght_map)
  IN  [cols |-> [p \in DOMAIN merged |-> Resize(merged[p], npat)],
       seqnames |-> [k \in 1..npat |-> target_rname],
       strand |-> pat_strand, start |-> pat_start, end |-> pat_end,
       nbase |-> pat_nbase, beta |-> pat_beta, pattern |-> pat_fnv]

(* ------------------------------- the run ------------------------------ *)

TypeOK ==
  /\ pc \in {"pass1", "pass2", "done"}
  /\ outcome \in {"running", "success", "aborted"}
  /\ x \in 0..nreads
  /\ npat \in 0..Len(df)

InitState ==
  /\ pc = "pass1" /\ outcome = "running" /\ x = 0 /\ npat = 0
  /\ pos_map = << >> /\ pat_map = << >> /\ hlght_map = << >>
  /\ pat_strand = << >> /\ pat_start = << >> /\ pat_end = << >>
  /\ pat_nbase = << >> /\ pat_beta = << >> /\ pat_fnv = << >>
  /\ res = NotReturned
  /\ checks = {} /\ pat_read = << >>
  /\ scan1 = [k \in 1..Len(df) |-> {}]
  /\ scan2 = [k \in 1..Len(df) |-> {}]

\* an invocation on a short read array
Init ==
  /\ df \in ReadArrays
  /\ pad = 0
  /\ target_rname = 1
  /\ \E t \in Targets : target_start = t[1] /\ target_end = t[2]
  /\ min_overlap = 1
  /\ ctx \in Contexts
  /\ min_ctx_freq \in Freqs
  /\ clip \in BOOLEAN
  /\ reverse_offset \in {0, 1}
  /\ hlght \in Highlights
  /\ charSigned \in BOOLEAN
  /\ InitState

\* an invocation on a read array longer than the interval between two
\* interrupt checks
InitLong ==
  /\ df \in [1..1 -> {r \in ReadPool : r.start = 100 /\ r.templid = 0}]
  /\ pad \in {MaxPad - 1, MaxPad}
  /\ target_rname = 1
  /\ target_start = 100 /\ target_end = 102
  /\ min_overlap = 1
  /\ ctx = <<Ascii.z, Ascii.Z>>
  /\ min_ctx_freq = <<0, 1>>
  /\ clip = FALSE
  /\ reverse_offset = 0
  /\ hlght = << >>
  /\ charSigned = TRUE
  /\ InitState

\* the loop condition x < df.nrow() of the two for loops, and its negation
InLoop == outcome = "running" /\ x < nreads

LoopDone == outcome = "running" /\ x = nreads

\* Rcpp::checkUserInterrupt() finds an interrupt pending and throws: the
\* function is left without a return value
Interrupt(pass) ==
  /\ InLoop
  /\ AtCheck(x)
  /\ checks' = checks \cup {<<pass, x>>}
  /\ outcome' = "aborted"
  /\ UNCHANGED <<args, pc, x, npat, pos_map, pat_map, hlght_map, pats, res, scan1, scan2>>

Pass1Interrupt == pc = "pass1" /\ Interrupt(1)

\* one iteration of the first loop over x, no interrupt pending at its check
Pass1Read ==
  /\ pc = "pass1"
  /\ InLoop
  /\ LET r == ReadAt(x)
         hit == OnTarget(r) /\ Overlaps(r)
         s == Scan1(pos_map, r)
     IN  /\ pos_map' = IF hit THEN s.map ELSE pos_map
         /\ npat' = IF hit THEN Npat1(npat, r) ELSE npat
         /\ scan1' = IF hit THEN [scan1 EXCEPT ![x - pad + 1] = s.seen] ELSE scan1
  /\ checks' = IF AtCheck(x) THEN checks \cup {<<1, x>>} ELSE checks
  /\ x' = x + 1
  /\ UNCHANGED <<args, pc, outcome, pat_map, hlght_map, pats, res, scan2>>

\* fill pattern map, fill highlight map, npat = 0
SelectPositions ==
  /\ pc = "pass1"
  /\ LoopDone
  /\ pat_map' = [p \in Selected(pos_map, npat) |-> NAVector(npat)]
  /\ hlght_map' = [p \in {hlght[k] : k \in 1..Len(hlght)} |-> NAVector(npat)]
  /\ npat' = 0
  /\ x' = 0
  /\ pc' = "pass2"
  /\ UNCHANGED <<args, outcome, pos_map, pats, res, checks, scan1, scan2>>

Pass2Interrupt == pc = "pass2" /\ Interrupt(2)

\* one iteration of the second loop over x, no interrupt pending at its check
Pass2Read ==
  /\ pc = "pass2"
  /\ InLoop
  /\ LET r == ReadAt(x)
         hit == OnTarget(r) /\ Overlaps(r)
         s == Scan2(r)
         emit == hit /\ NonEmpty(s.fnv)
         h == Highlight(s.fnv, r)
     IN  /\ pat_map' = IF hit THEN Save(pat_map, s.cells, npat) ELSE pat_map
         /\ scan2' = IF hit THEN [scan2 EXCEPT ![x - pad + 1] = s.seen] ELSE scan2
         /\ IF emit
              THEN /\ hlght_map' = Save(hlght_map, h.cells, npat)
                   /\ npat' = npat + 1
                   /\ pat_strand' = Append(pat_strand, r.strand)
                   /\ pat_start' = Append(pat_start, PatStart(r))
                   /\ pat_end' = Append(pat_end, PatEnd(r))
                   /\ pat_nbase' = Append(pat_nbase, s.total)
                   /\ pat_beta' = Append(pat_beta, <<s.meth, s.total>>)
                   /\ pat_fnv' = Append(pat_fnv, FnvStr(h.fnv))
                   /\ pat_read' = Append(pat_read, x - pad + 1)
              ELSE UNCHANGED <<hlght_map, npat, pats>>
  /\ checks' = IF AtCheck(x) THEN checks \cup {<<2, x>>} ELSE checks
  /\ x' = x + 1
  /\ UNCHANGED <<args, pc, outcome, pos_map, res, scan1>>

\* the end of the function: the empty data frame, or the wrapped maps with
\* the pattern columns pushed in front
Return ==
  /\ pc = "pass2"
  /\ LoopDone
  /\ res' = IF npat = 0 THEN EmptyTable ELSE Table
  /\ outcome' = "success"
  /\ pc' = "done"
  /\ UNCHANGED <<args, x, npat, pos_map, pat_map, hlght_map, pats, checks, scan1, scan2>>

Next ==
  \/ Pass1Interrupt
  \/ Pass1Read
  \/ SelectPositions
  \/ Pass2Interrupt
  \/ Pass2Read
  \/ Return

Spec == Init /\ [][Next]_vars

SpecLong == InitLong /\ [][Next]_vars

(* ------------------------- vocabulary of the claims ------------------- *)

Reads == 1..Len(df)
Rows == 1..Len(pat_read)
Succeeded == pc = "done" /\ outcome = "success"

\* read k passes the overlap filter
Passed(k) == OnTarget(df[k]) /\ Overlaps(df[k])
PassedReads == {k \in Reads : Passed(k)}

\* the first, the second loop has finished the iteration of read k
Seen1(k) == (pc = "pass1" /\ x >= pad + k) \/ pc \in {"pass2", "done"}
Seen2(k) == (pc = "pass2" /\ x >= pad + k) \/ pc = "done"

\* the configured context set, the highlight list as a set
CtxSet == {ctx[k] : k \in 1..Len(ctx)}
HlghtSet == {hlght[k] : k \in 1..Len(hlght)}

\* the genomic positions of a read, and those it shares with the target
ReadSpan(r) == {p \in r.start..(r.start + Len(xm[r.templid + 1]) - 1) : TRUE}
Intersection(r) == {p \in ReadSpan(r) : target_start <= p /\ p <= target_end}

\* the call character, the sequence character of read r at genomic position p
CallAt(r, p) == xm[r.templid + 1][p - r.start + 1]
BaseAt(r, p) == seq[r.templid + 1][p - r.start + 1]

\* the coordinate under which the call at genomic position p of read r is filed
Filed(r, p) == p - (IF r.strand = 2 THEN reverse_offset ELSE 0)

(* --------------------------------- C1 --------------------------------- *)

\* C1: with clip = TRUE, for every read that passes the overlap filter, the
\* genomic positions whose call characters pass 1 and pass 2 read are exactly
\* the intersection of the read's span and the target,
\* max(read_start, target_start) .. min(read_end, target_end), also for reads
\* that start before target_start.
C1_ClipScansIntersection ==
  clip =>
    \A k \in PassedReads :
      /\ Seen1(k) => scan1[k] = Intersection(df[k])
      /\ Seen2(k) => scan2[k] = Intersection(df[k])

(* --------------------------------- C2 --------------------------------- *)

Scenario ==
  /\ df = << [rname |-> 1, strand |-> 1, start |-> 100, templid |-> 0],
             [rname |-> 1, strand |-> 1, start |-> 100, templid |-> 1] >>
  /\ target_start = 100 /\ target_end = 102
  /\ min_overlap = 1
  /\ ctx = <<Ascii.z, Ascii.Z>>
  /\ min_ctx_freq = <<0, 1>>
  /\ clip = FALSE
  /\ reverse_offset = 0
  /\ hlght = << >>

ScenarioRows(ends) ==
  /\ DOMAIN pat_map = {100, 101}
  /\ DOMAIN res.cols = {100, 101}
  /\ Len(res.pattern) = 2
  /\ res.nbase = <<2, 2>>
  /\ res.start = <<100, 100>>
  /\ res.end = ends
  /\ res.pattern[1] # res.pattern[2]

\* C2 as stated: in the two-read scenario the selected positions are
\* {100,101} and the result has 2 rows, each with nbase = 2, start = 100 and
\* end = 101, distinct hash_ids, and the category codes of 'Z'/'z' in the
\* columns of positions 100 and 101.
C2_ScenarioEnd101 ==
  (Scenario /\ Succeeded) =>
    /\ ScenarioRows(<<101, 101>>)
    /\ res.cols[100] = <<ctx_to_idx(Ascii.Z), ctx_to_idx(Ascii.z)>>
    /\ res.cols[101] = <<ctx_to_idx(Ascii.z), ctx_to_idx(Ascii.Z)>>

\* C2 amended: in the two-read scenario the selected positions are {100,101}
\* and the result has 2 rows, each with nbase = 2, start = 100 and end = 102
\* (clip = FALSE: the end of the read), distinct hash_ids, and the columns of
\* positions 100 and 101 hold the codes of 'Z' (7) and 'z' (15).
C2_ScenarioEnd102 ==
  (Scenario /\ Succeeded) =>
    /\ ScenarioRows(<<102, 102>>)
    /\ res.cols[100] = <<7, 15>>
    /\ res.cols[101] = <<15, 7>>

C2_Witness == Scenario /\ Succeeded /\ Len(res.pattern) = 2

(* --------------------------------- C3 --------------------------------- *)

\* the scan indices of read k, and the coordinates at which it carries a
\* character of the configured context set
InContext(k) ==
  {df[k].start + i - offset_x(df[k]) :
     i \in {j \in ScanIdx(df[k]) : xm_x(df[k])[j + 1] \in CtxSet}}

\* the number of reads that passed the filter and carry a context character
\* at coordinate p
Frequency(p) == Cardinality({k \in PassedReads : p \in InContext(k)})
Observed == UNION {InContext(k) : k \in PassedReads}

\* C3: after pass 1, frequency_map[pos] is the number of reads that passed
\* the overlap filter and carry a character of the configured context set at
\* the scan index mapping to pos; candidate_read_count is the number of reads
\* that passed the filter, each counted once, also when it contributed no
\* in-context base; and the columns selected for pass 2 are exactly
\* { pos : frequency_map[pos]/candidate_read_count >= min_ctx_freq } minus the
\* highlight list.
C3_FrequencyAndSelection ==
  /\ (pc = "pass1" /\ x = nreads) =>
       /\ npat = Cardinality(PassedReads)
       /\ DOMAIN pos_map = Observed
       /\ \A p \in Observed : pos_map[p] = Frequency(p)
  /\ pc = "pass2" =>
       /\ DOMAIN pos_map = Observed
       /\ DOMAIN pat_map =
            {p \in Observed :
               Frequency(p) * min_ctx_freq[2]
                 >= min_ctx_freq[1] * Cardinality(PassedReads)} \ HlghtSet
       /\ \A p \in DOMAIN pat_map : Len(pat_map[p]) = Cardinality(PassedReads)

\* two reads passed the filter, one of them without a context character in
\* its scan range, and an observed position is not selected
C3_Witness ==
  /\ pc = "pass2"
  /\ Cardinality(PassedReads) = 2
  /\ \E k \in PassedReads : InContext(k) = {}
  /\ Observed # {}
  /\ DOMAIN pat_map # Observed

(* --------------------------------- C4 --------------------------------- *)

RowsOf(k) == {j \in Rows : pat_read[j] = k}

\* no value is stored beyond the emitted rows
NoStrayEntry ==
  /\ \A p \in DOMAIN pat_map : \A j \in (npat + 1)..Len(pat_map[p]) :
       pat_map[p][j] = NA_INTEGER
  /\ \A p \in DOMAIN hlght_map : \A j \in (npat + 1)..Len(hlght_map[p]) :
       hlght_map[p][j] = NA_INTEGER

\* C4 as stated: a read that passes the overlap filter is discarded (no
\* pattern row, no highlight entry) if and only if no character in its scan
\* range is in context; every qualifying read with at least one in-context
\* character in its scan range emits exactly one pattern row.
C4_DiscardIffNoContext ==
  pc \in {"pass2", "done"} =>
    /\ \A k \in PassedReads :
         Seen2(k) => Cardinality(RowsOf(k)) = (IF InContext(k) = {} THEN 0 ELSE 1)
    /\ NoStrayEntry

\* C4 amended: a read that passes the overlap filter is discarded (no pattern
\* row, no highlight entry) if and only if no character in its scan range is
\* in context at a selected position; every qualifying read with at least one
\* in-context character at a selected position in its scan range emits
\* exactly one pattern row.
C4_DiscardIffNoSelectedContext ==
  pc \in {"pass2", "done"} =>
    /\ \A k \in PassedReads :
         Seen2(k) =>
           Cardinality(RowsOf(k)) =
             (IF InContext(k) \cap DOMAIN pat_map = {} THEN 0 ELSE 1)
    /\ NoStrayEntry

\* a read with a context character, none of them at a selected position, and
\* a highlight coordinate inside its span, was discarded, and another read
\* emitted a row
C4_Witness ==
  /\ pc = "done"
  /\ \E k \in PassedReads :
       /\ InContext(k) # {}
       /\ InContext(k) \cap DOMAIN pat_map = {}
       /\ ReadSpan(df[k]) \cap HlghtSet # {}
       /\ RowsOf(k) = {}
  /\ Rows # {}

(* --------------------------------- C5 --------------------------------- *)

\* the selected positions at which row j holds a value; those whose value
\* has bit 8 clear
Held(j) == {p \in DOMAIN pat_map : pat_map[p][j] # NA_INTEGER}
HeldMeth(j) == {p \in Held(j) : (pat_map[p][j] \div 8) % 2 = 0}

\* C5: for every emitted pattern row, nbase >= 1, nbase is the number of
\* non-missing entries the row holds in the selected-position columns, and
\* beta is meth_count / nbase exactly, meth_count the number of those entries
\* whose code has bit 8 clear; hence 0 <= beta <= 1.
C5_NbaseAndBeta ==
  \A j \in Rows :
    /\ pat_nbase[j] >= 1
    /\ pat_nbase[j] = Cardinality(Held(j))
    /\ pat_beta[j] = <<Cardinality(HeldMeth(j)), pat_nbase[j]>>
    /\ 0 <= pat_beta[j][1] /\ pat_beta[j][1] <= pat_beta[j][2]
    /\ Succeeded =>
         /\ res.nbase[j] = Cardinality({p \in DOMAIN res.cols \ HlghtSet :
                                          res.cols[p][j] # NA_INTEGER})
         /\ res.beta[j] = pat_beta[j]

\* a result of two rows, one with both a methylated and an unmethylated call
C5_Witness ==
  /\ Succeeded
  /\ Len(res.beta) = 2
  /\ \E j \in Rows : 0 < res.beta[j][1] /\ res.beta[j][1] < res.beta[j][2]

(* --------------------------------- C6 --------------------------------- *)

Nucleotides == {Ascii.A, Ascii.C, Ascii.G, Ascii.T}
BaseCode(c) ==
  CASE c = Ascii.A -> 3 [] c = Ascii.C -> 4 [] c = Ascii.G -> 12 [] c = Ascii.T -> 11

\* row j holds, under every highlight coordinate, the code of the read's base
\* if the coordinate is in span and the base is one of A/C/G/T, and the
\* missing value otherwise
HighlightsWithin(j, span) ==
  LET r == df[pat_read[j]]
  IN  \A c \in HlghtSet :
        IF c \in span /\ c \in ReadSpan(r) /\ BaseAt(r, c) \in Nucleotides
          THEN hlght_map[c][j] = BaseCode(BaseAt(r, c))
          ELSE hlght_map[c][j] = NA_INTEGER

\* C6 as stated: for every emitted row and every highlight coordinate, the
\* entry is non-missing (the base code A->3, C->4, G->12, T->11) if and only
\* if the coordinate is inside the emitting read's span [start, start+len-1]
\* and the read's sequence character there is one of A/C/G/T.
C6_HighlightInReadSpan ==
  \A j \in Rows : HighlightsWithin(j, ReadSpan(df[pat_read[j]]))

\* C6 amended: for every emitted row and every highlight coordinate, the
\* entry is non-missing (the base code A->3, C->4, G->12, T->11) if and only
\* if the coordinate is inside the row's own span [start, end] (the read's
\* span when clip = FALSE, the scanned part of it when clip = TRUE) and the
\* read's sequence character there is one of A/C/G/T; a highlight coordinate
\* outside the row's span always yields the missing value.
C6_HighlightInPatternSpan ==
  \A j \in Rows :
    /\ HighlightsWithin(j, pat_start[j]..pat_end[j])
    /\ Succeeded => \A c \in HlghtSet : res.cols[c][j] = hlght_map[c][j]

\* a clipped row whose read spans a highlight coordinate outside the row's
\* span, with another highlight coordinate recorded
C6_Witness ==
  /\ Succeeded
  /\ clip
  /\ \E j \in Rows :
       /\ \E c \in HlghtSet :
            /\ c \in ReadSpan(df[pat_read[j]])
            /\ c \notin pat_start[j]..pat_end[j]
            /\ res.cols[c][j] = NA_INTEGER
       /\ \E c \in HlghtSet : res.cols[c][j] # NA_INTEGER

(* --------------------------------- C7 --------------------------------- *)

\* FNV-1a over a sequence of octets: hash = (hash xor octet) * FNV_prime
RECURSIVE Fnv1aLoop(_, _)
Fnv1aLoop(st, octets) ==
  IF st.idx < Len(octets)
    THEN Fnv1aLoop([hash |-> FnvMul(<<XorByte(st.hash[1], octets[st.idx + 1])>>
                                      \o Tail(st.hash)),
                    idx |-> st.idx + 1],
                   octets)
    ELSE st

Fnv1a(octets) == Fnv1aLoop([hash |-> offset_basis, idx |-> 0], octets).hash

RECURSIVE Ascending(_)
Ascending(S) ==
  IF S = {} THEN << >>
  ELSE LET m == CHOOSE a \in S : \A b \in S : a <= b
       IN  <<m>> \o Ascending(S \ {m})

RECURSIVE Flatten(_)
Flatten(ss) == IF ss = << >> THEN << >> ELSE Head(ss) \o Flatten(Tail(ss))

\* the octets of row j: position and raw call byte of each selected position
\* it holds, ascending, then coordinate and raw base byte of each highlight it
\* holds, in highlight-list order
RowOctets(j) ==
  LET r == df[pat_read[j]]
      sel == Ascending(Held(j))
      off == IF r.strand = 2 THEN reverse_offset ELSE 0
  IN  Flatten([k \in 1..Len(sel) |->
                 IntBytes(sel[k]) \o <<CallAt(r, sel[k] + off)>>])
      \o Flatten([k \in 1..Len(hlght) |->
                    IF hlght_map[hlght[k]][j] # NA_INTEGER
                      THEN IntBytes(hlght[k]) \o <<BaseAt(r, hlght[k])>>
                      ELSE << >>])

SameEntries(i, j) ==
  /\ \A p \in DOMAIN pat_map : pat_map[p][i] = pat_map[p][j]
  /\ \A p \in DOMAIN hlght_map : hlght_map[p][i] = hlght_map[p][j]

\* any two emitted rows with identical position-keyed entries carry the same
\* hash_id
SameEntriesSameHash ==
  \A i, j \in Rows : SameEntries(i, j) => pat_fnv[i] = pat_fnv[j]

\* C7: any two emitted rows whose position-keyed entries are identical carry
\* the same hash_id, whatever the emitting reads' start, strand, template_ref
\* or order; the hash_id is the FNV-1a fold, from the offset basis, of
\* (position bytes, raw call byte) for each selected position in ascending
\* scan order followed by (coordinate bytes, raw base byte) for each recorded
\* highlight in highlight-list order.
C7_HashIsFnv1aOfEntries ==
  /\ SameEntriesSameHash
  /\ \A j \in Rows : pat_fnv[j] = FnvStr(Fnv1a(RowOctets(j)))

\* two rows of different reads (start, strand, template) with the same entries
SameEntriesReached ==
  \E i, j \in Rows :
    /\ SameEntries(i, j)
    /\ df[pat_read[i]].start # df[pat_read[j]].start
    /\ df[pat_read[i]].strand # df[pat_read[j]].strand

\* what C7 holds of on every build: the fold with every byte below 128
C7_HashIsFnv1aBelow128 ==
  /\ SameEntriesSameHash
  /\ \A j \in Rows :
       (\A k \in 1..Len(RowOctets(j)) : RowOctets(j)[k] < 128 \/ ~charSigned)
         => pat_fnv[j] = FnvStr(Fnv1a(RowOctets(j)))

(* --------------------------------- C8 --------------------------------- *)

\* C8: when the target window is malformed (target_end < target_start) the
\* invocation fails before any read is scanned; it never completes as a
\* success, neither with a populated table nor with the empty table.
C8_MalformedTargetFails ==
  target_end < target_start =>
    /\ outcome # "success"
    /\ pc = "pass1" /\ x = 0

(* --------------------------------- C9 --------------------------------- *)

\* the multiples of 65,536 below n
Multiples(n) == {65536 * m : m \in 0..((n - 1) \div 65536)}

\* the number of iterations of the first, of the second loop that have
\* reached their interrupt check
Begun(pass) ==
  IF pc = (IF pass = 1 THEN "pass1" ELSE "pass2")
    THEN x + (IF outcome = "aborted" THEN 1 ELSE 0)
    ELSE IF pass = 2 /\ pc = "pass1" THEN 0 ELSE nreads

ChecksAtMultiples ==
  checks = {<<1, i>> : i \in Multiples(Begun(1))}
             \cup {<<2, i>> : i \in Multiples(Begun(2))}

AbortedReturnsNothing ==
  outcome = "aborted" => res = NotReturned /\ pc # "done" /\ x % 65536 = 0

SuccessReturnsTable ==
  outcome = "success" => res # NotReturned /\ pc = "done"

\* an upper bound of the steps a running invocation has left
Remaining ==
  IF outcome # "running" THEN 0
  ELSE IF pc = "pass1" THEN 2 * nreads + 2 - x
  ELSE IF pc = "pass2" THEN nreads + 1 - x
  ELSE 0

\* C9: in each pass the interrupt check is made exactly at the read indices
\* that are multiples of 65,536 over the whole read array (index 0 and
\* off-target reads included) and nowhere else; an interrupt found pending at
\* a check ends the invocation as aborted, with no table returned; an
\* invocation that is never interrupted terminates with a result: it can
\* always take a step while it runs, every step brings it nearer to its end,
\* it is aborted only by an interrupt at a check, and it ends otherwise with
\* a table returned.
C9_Checkpoints ==
  /\ [](ChecksAtMultiples /\ AbortedReturnsNothing /\ SuccessReturnsTable)
  /\ [](outcome = "running" => pc \in {"pass1", "pass2"} /\ (InLoop \/ LoopDone))
  /\ [](Remaining >= 0 /\ (Remaining = 0 => outcome # "running"))
  /\ [][/\ outcome = "running"
        /\ Remaining' < Remaining
        /\ outcome' = "aborted" => x % 65536 = 0 /\ checks' # checks]_vars

\* the second pass is interrupted at index 65,536
C9_Witness == outcome = "aborted" /\ pc = "pass2" /\ x = 65536

(* --------------------------------- C10 -------------------------------- *)

\* the six call characters, and the index at which the 16-slot table lists
\* each of them, the first slot counted as 0
CallChars == {Ascii.H, Ascii.X, Ascii.Z, Ascii.h, Ascii.x, Ascii.z}
Slot0(c) ==
  CASE c = Ascii.H -> 1 [] c = Ascii.X -> 5 [] c = Ascii.Z -> 6
    [] c = Ascii.h -> 9 [] c = Ascii.x -> 13 [] c = Ascii.z -> 14
Label(c) ==
  CASE c = Ascii.H -> "H" [] c = Ascii.X -> "X" [] c = Ascii.Z -> "Z"
    [] c = Ascii.h -> "h" [] c = Ascii.x -> "x" [] c = Ascii.z -> "z"
Bit8Clear(v) == (v \div 8) % 2 = 0

\* the call character behind the value row j holds at selected position p
CallOf(j, p) ==
  LET r == df[pat_read[j]]
  IN  CallAt(r, p + (IF r.strand = 2 THEN reverse_offset ELSE 0))

\* every value stored in a selected column is index(c) for its call
\* character c, and that slot of the level table carries the name of c
StoredCodes(index(_), base) ==
  \A j \in Rows : \A p \in Held(j) :
    /\ pat_map[p][j] = index(CallOf(j, p))
    /\ contexts[pat_map[p][j] + 1 - base] = Label(CallOf(j, p))

\* C10 as stated: for each call character c in {H, X, Z, h, x, z} the code
\* stored in the table, ((byte(c) + 2) >> 2) & 15, is the index at which the
\* 16-slot table lists c (H=1, X=5, Z=6, h=9, x=13, z=14); the
\* methylated-class calls are exactly those with index in {1,2,3,5,6}, the
\* unmethylated-class calls exactly those with index in {9,10,11,13,14}; no
\* character of the configured context set maps to a slot labelled NA.
C10_CodeIsZeroBasedSlot ==
  Rows # {} =>
  /\ StoredCodes(Slot0, 0)
  /\ \A c \in CallChars :
       /\ ctx_to_idx(c) = Slot0(c)
       /\ Bit8Clear(ctx_to_idx(c)) <=> ctx_to_idx(c) \in {1, 2, 3, 5, 6}
       /\ ~Bit8Clear(ctx_to_idx(c)) <=> ctx_to_idx(c) \in {9, 10, 11, 13, 14}

Slot1(c) == Slot0(c) + 1

\* C10 amended: for each call character c in {H, X, Z, h, x, z} the code
\* stored in the table, ((byte(c) + 2) >> 2) & 15, is one more than the index
\* at which the 16-slot table lists c, the 1-based position of c among the
\* 16 levels (H=2, X=6, Z=7, h=10, x=14, z=15); the methylated-class calls
\* are exactly those with code in {2,3,4,6,7}, the unmethylated-class calls
\* exactly those with code in {10,11,12,14,15}; none of these characters maps
\* to a level labelled NA.
C10_CodeIsOneBasedLevel ==
  Rows # {} =>
  /\ StoredCodes(Slot1, 1)
  /\ \A c \in CallChars :
       /\ ctx_to_idx(c) = Slot1(c)
       /\ contexts[ctx_to_idx(c)] = Label(c)
       /\ Bit8Clear(ctx_to_idx(c)) <=> ctx_to_idx(c) \in {2, 3, 4, 6, 7}
       /\ ~Bit8Clear(ctx_to_idx(c)) <=> ctx_to_idx(c) \in {10, 11, 12, 14, 15}

\* a returned row that holds the codes of x, h and X
C10_Witness ==
  /\ Succeeded
  /\ \E j \in Rows :
       {CallOf(j, p) : p \in Held(j)} = {Ascii.x, Ascii.h, Ascii.X}

====
